---- MODULE Spec2Model ----
(***************************************************************************)
(* Kernel thread control (proc/kthread.c): a pool of thread control blocks *)
(* (slab allocator), kernel stacks (page allocator), and the lifecycle     *)
(* operations kthread_create, kthread_destroy, kthread_cancel,             *)
(* kthread_exit and kthread_clone.  The scheduler and the process layer    *)
(* are collaborators outside kthread.c; the operations kthread.c calls on  *)
(* them (sched_cancel, proc_thread_exited) and the sleep/wake/switch steps *)
(* that move threads between states are modelled from the specification.   *)
(***************************************************************************)
EXTENDS Integers, Sequences, FiniteSets, TLC

(* ---- bounds ---- *)
NumSlots  == 2   \* control blocks the slab pool can hold
NumStacks == 3   \* kernel stacks the page allocator can hand out
NumProcs  == 2   \* processes
NumChans  == 1   \* wait channels
MaxVal    == 2   \* result values 0..MaxVal, 0 is the null result

NULL   == 0
Slots  == 1..NumSlots
Stacks == 1..NumStacks
Procs  == 1..NumProcs
Chans  == 1..NumChans
Vals   == 0..MaxVal

VARIABLES
  tcb,        \* memory of every control block slot (kept, stale, after a free)
  alloc,      \* slots currently allocated from kthread_allocator
  pages,      \* stacks currently allocated from the page allocator
  p_threads,  \* per process: the thread collection, in list order
  queues,     \* per wait channel: the queue of sleeping threads
  curthr,     \* the running thread, NULL between a switch-away and the next pick
  curproc,    \* the process of the running thread
  exited,     \* per slot: the thread-exited notifications of this lifetime
  doublefree, \* a stack or a control block was freed while not allocated
  panic,      \* "none", or the halt reason
  last        \* the operation performed last and its outcome

vars == <<tcb, alloc, pages, p_threads, queues, curthr, curproc, exited,
          doublefree, panic, last>>

(* A control block; kt_qlink / kt_plink are reduced to "is linked". *)
ZeroTcb ==
  [kt_kstack |-> NULL, c_kstack |-> NULL, kt_retval |-> NULL, kt_errno |-> 0,
   kt_proc |-> NULL, kt_cancelled |-> FALSE, kt_wchan |-> NULL,
   kt_state |-> "KT_NO_STATE", kt_qlink |-> FALSE, kt_plink |-> FALSE]

Min(S) == CHOOSE x \in S : \A y \in S : x <= y

RECURSIVE SeqRemove(_, _)
SeqRemove(s, x) ==
  IF s = <<>> THEN <<>>
  ELSE IF Head(s) = x THEN SeqRemove(Tail(s), x)
       ELSE <<Head(s)>> \o SeqRemove(Tail(s), x)

InSeq(s, x) == \E i \in 1..Len(s) : s[i] = x

(* slab_obj_alloc(kthread_allocator): a free slot, NULL when the pool is empty *)
slab_obj_alloc(a) == IF Slots \ a = {} THEN NULL ELSE Min(Slots \ a)

(* alloc_stack(): a free stack, NULL when no pages are left *)
alloc_stack(pg) == IF Stacks \ pg = {} THEN NULL ELSE Min(Stacks \ pg)

(* What a call of alloc_stack() can return: page_alloc_n serves the whole   *)
(* kernel, so besides the stack the model hands out the call can find no   *)
(* memory available and return NULL.                                       *)
alloc_stack_results(pg) == {alloc_stack(pg), NULL}

(* free_stack(stack) *)
free_stack(pg, stack) == pg \ {stack}

(* Record of the operation performed last: its name, the block (or process) *)
(* it was called on, its argument, how it ended ("return", "noreturn",     *)
(* "assert"), the block it returned, and the state the target block was in *)
(* when it was called.                                                     *)
Op(op, thr, arg, out, ret, was) ==
  [op |-> op, thr |-> thr, arg |-> arg, out |-> out, ret |-> ret, was |-> was]

(* Steps of the collaborators are not told apart *)
SchedOp == Op("sched", NULL, NULL, "return", NULL, "")

Init ==
  /\ tcb = [t \in Slots |-> ZeroTcb]
  /\ alloc = {}
  /\ pages = {}
  /\ p_threads = [p \in Procs |-> <<>>]
  /\ queues = [c \in Chans |-> <<>>]
  /\ curthr = NULL
  /\ curproc = NULL
  /\ exited = [t \in Slots |-> <<>>]
  /\ doublefree = FALSE
  /\ panic = "none"
  /\ last = SchedOp

(* KASSERT failure: the kernel halts *)
Halt(why) == panic' = why

(* The kernel runs: it has not halted, and no double free has left the     *)
(* allocators in an undefined state (such a run is followed no further).   *)
Running == panic = "none" /\ ~doublefree

(* ------------------------- kthread_create ------------------------------ *)
(* kthread_create that leaves kt_state unset *)
CreateInit_NoState(p, ktstack) ==
  [kt_kstack |-> ktstack, c_kstack |-> ktstack, kt_retval |-> NULL,
   kt_errno |-> 0, kt_proc |-> p, kt_cancelled |-> FALSE, kt_wchan |-> NULL,
   kt_state |-> "KT_NO_STATE", kt_qlink |-> FALSE, kt_plink |-> TRUE]

CreateInit(p, ktstack) ==
  [kt_kstack |-> ktstack, c_kstack |-> ktstack, kt_retval |-> NULL,
   kt_errno |-> 0, kt_proc |-> p, kt_cancelled |-> FALSE, kt_wchan |-> NULL,
   kt_state |-> "KT_RUN", kt_qlink |-> FALSE, kt_plink |-> TRUE]

(* kthread_create that links the block into p->p_threads before it checks *)
(* the stack it was given                                                *)
kthread_create_LinkFirst(p) ==
  /\ Running
  /\ \E ktstack \in alloc_stack_results(pages) :
     LET newthread == slab_obj_alloc(alloc)
     IN IF newthread = NULL
        THEN /\ Halt("Ran out of memory in kthread creation")
             /\ last' = Op("create", p, NULL, "assert", NULL, "")
             /\ UNCHANGED <<tcb, alloc, pages, p_threads, queues, curthr,
                            curproc, exited, doublefree>>
        ELSE IF ktstack = NULL
        THEN /\ Halt("Ran out of memory in thread context setup.")
             /\ alloc' = alloc \cup {newthread}
             /\ p_threads' = [p_threads EXCEPT ![p] = Append(@, newthread)]
             /\ last' = Op("create", p, NULL, "assert", NULL, "")
             /\ UNCHANGED <<tcb, pages, queues, curthr, curproc, exited,
                            doublefree>>
        ELSE /\ alloc' = alloc \cup {newthread}
             /\ pages' = pages \cup {ktstack}
             /\ tcb' = [tcb EXCEPT ![newthread] = CreateInit(p, ktstack)]
             /\ p_threads' = [p_threads EXCEPT ![p] = Append(@, newthread)]
             /\ exited' = [exited EXCEPT ![newthread] = <<>>]
             /\ last' = Op("create", p, NULL, "return", newthread, "")
             /\ UNCHANGED <<queues, curthr, curproc, doublefree, panic>>

kthread_create(p) ==
  /\ Running
  /\ \E ktstack \in alloc_stack_results(pages) :
     LET newthread == slab_obj_alloc(alloc)
     IN IF newthread = NULL
        THEN /\ Halt("Ran out of memory in kthread creation")
             /\ last' = Op("create", p, NULL, "assert", NULL, "")
             /\ UNCHANGED <<tcb, alloc, pages, p_threads, queues, curthr,
                            curproc, exited, doublefree>>
        ELSE IF ktstack = NULL
        THEN /\ Halt("Ran out of memory in thread context setup.")
             /\ alloc' = alloc \cup {newthread}
             /\ last' = Op("create", p, NULL, "assert", NULL, "")
             /\ UNCHANGED <<tcb, pages, p_threads, queues, curthr, curproc,
                            exited, doublefree>>
        ELSE /\ alloc' = alloc \cup {newthread}
             /\ pages' = pages \cup {ktstack}
             /\ tcb' = [tcb EXCEPT ![newthread] = CreateInit(p, ktstack)]
             /\ p_threads' = [p_threads EXCEPT ![p] = Append(@, newthread)]
             /\ exited' = [exited EXCEPT ![newthread] = <<>>]
             /\ last' = Op("create", p, NULL, "return", newthread, "")
             /\ UNCHANGED <<queues, curthr, curproc, doublefree, panic>>

(* --------------------- process layer (collaborator) -------------------- *)
(* proc_thread_exited(retval): the process records the exit of the calling *)
(* thread and switches away from it for good.                              *)
proc_thread_exited(mem, retval) ==
  /\ exited' = [exited EXCEPT ![curthr] =
                  Append(@, [val |-> retval, state |-> mem[curthr].kt_state])]
  /\ curthr' = NULL
  /\ curproc' = NULL

(* -------------------------- kthread_exit ------------------------------- *)
(* The three KASSERTs in the middle of kthread_exit, on the calling thread *)
ExitAsserts(mem) ==
  /\ mem[curthr].kt_wchan = NULL
  /\ ~mem[curthr].kt_qlink
  /\ mem[curthr].kt_proc = curproc

(* kthread_exit that notifies the process before setting KT_EXITED *)
kthread_exit_body_NotifyFirst(retval) ==
  LET m1 == [tcb EXCEPT ![curthr].kt_retval = retval]
      m2 == [m1 EXCEPT ![curthr].kt_state = "KT_EXITED"]
  IN IF ExitAsserts(m1)
     THEN /\ tcb' = m2
          /\ proc_thread_exited(m1, retval)
          /\ UNCHANGED <<alloc, pages, p_threads, queues, doublefree, panic>>
     ELSE /\ tcb' = m1
          /\ Halt("kthread_exit precondition")
          /\ UNCHANGED <<alloc, pages, p_threads, queues, curthr, curproc,
                         exited, doublefree>>

(* kthread_exit that resets kt_cancelled on the way out *)
kthread_exit_body_ClearFlag(retval) ==
  LET m1 == [tcb EXCEPT ![curthr].kt_retval = retval]
      m2 == [m1 EXCEPT ![curthr].kt_state = "KT_EXITED",
                       ![curthr].kt_cancelled = FALSE]
  IN IF ExitAsserts(m1)
     THEN /\ tcb' = m2
          /\ proc_thread_exited(m2, retval)
          /\ UNCHANGED <<alloc, pages, p_threads, queues, doublefree, panic>>
     ELSE /\ tcb' = m1
          /\ Halt("kthread_exit precondition")
          /\ UNCHANGED <<alloc, pages, p_threads, queues, curthr, curproc,
                         exited, doublefree>>

(* kthread_exit that does not call proc_thread_exited *)
kthread_exit_body_NoNotify(retval) ==
  LET m1 == [tcb EXCEPT ![curthr].kt_retval = retval]
      m2 == [m1 EXCEPT ![curthr].kt_state = "KT_EXITED"]
  IN IF ExitAsserts(m1)
     THEN /\ tcb' = m2
          /\ Halt("Should never get here!")
          /\ UNCHANGED <<alloc, pages, p_threads, queues, curthr, curproc,
                         exited, doublefree>>
     ELSE /\ tcb' = m1
          /\ Halt("kthread_exit precondition")
          /\ UNCHANGED <<alloc, pages, p_threads, queues, curthr, curproc,
                         exited, doublefree>>

(* kthread_exit that keeps the result a canceller has stored *)
kthread_exit_body_KeepCancelValue(retval) ==
  LET m1 == IF tcb[curthr].kt_cancelled THEN tcb
            ELSE [tcb EXCEPT ![curthr].kt_retval = retval]
      m2 == [m1 EXCEPT ![curthr].kt_state = "KT_EXITED"]
  IN IF ExitAsserts(m1)
     THEN /\ tcb' = m2
          /\ proc_thread_exited(m2, m2[curthr].kt_retval)
          /\ UNCHANGED <<alloc, pages, p_threads, queues, doublefree, panic>>
     ELSE /\ tcb' = m1
          /\ Halt("kthread_exit precondition")
          /\ UNCHANGED <<alloc, pages, p_threads, queues, curthr, curproc,
                         exited, doublefree>>

(* kthread_exit that sets KT_EXITED before its KASSERTs *)
kthread_exit_body_StateFirst(retval) ==
  LET m1 == [tcb EXCEPT ![curthr].kt_retval = retval]
      m2 == [m1 EXCEPT ![curthr].kt_state = "KT_EXITED"]
  IN IF ExitAsserts(m1)
     THEN /\ tcb' = m2
          /\ proc_thread_exited(m2, retval)
          /\ UNCHANGED <<alloc, pages, p_threads, queues, doublefree, panic>>
     ELSE /\ tcb' = m2
          /\ Halt("kthread_exit precondition")
          /\ UNCHANGED <<alloc, pages, p_threads, queues, curthr, curproc,
                         exited, doublefree>>

(* Body of kthread_exit(retval): every variable but last *)
kthread_exit_body(retval) ==
  LET m1 == [tcb EXCEPT ![curthr].kt_retval = retval]
      m2 == [m1 EXCEPT ![curthr].kt_state = "KT_EXITED"]
  IN IF ExitAsserts(m1)
     THEN /\ tcb' = m2
          /\ proc_thread_exited(m2, retval)
          /\ UNCHANGED <<alloc, pages, p_threads, queues, doublefree, panic>>
     ELSE /\ tcb' = m1
          /\ Halt("kthread_exit precondition")
          /\ UNCHANGED <<alloc, pages, p_threads, queues, curthr, curproc,
                         exited, doublefree>>

ExitOut(retval) ==
  IF ExitAsserts([tcb EXCEPT ![curthr].kt_retval = retval])
  THEN "noreturn" ELSE "assert"

kthread_exit(retval) ==
  /\ Running
  /\ curthr # NULL
  /\ kthread_exit_body(retval)
  /\ last' = Op("exit", curthr, retval, ExitOut(retval), NULL,
                tcb[curthr].kt_state)

(* ----------------------- scheduler: sched_cancel ----------------------- *)
(* sched_cancel(kthr): set the cancellation flag; a thread in a            *)
(* cancellable sleep is taken off its wait queue and made runnable.        *)
sched_cancel_tcb(mem, kthr) ==
  IF mem[kthr].kt_state = "KT_SLEEP_CANCELLABLE"
  THEN [mem EXCEPT ![kthr].kt_cancelled = TRUE,
                   ![kthr].kt_wchan = NULL,
                   ![kthr].kt_qlink = FALSE,
                   ![kthr].kt_state = "KT_RUN"]
  ELSE [mem EXCEPT ![kthr].kt_cancelled = TRUE]

sched_cancel_queues(mem, qs, kthr) ==
  IF mem[kthr].kt_state = "KT_SLEEP_CANCELLABLE"
  THEN [c \in Chans |-> IF c = mem[kthr].kt_wchan
                        THEN SeqRemove(qs[c], kthr) ELSE qs[c]]
  ELSE qs

(* ------------------------- kthread_cancel ------------------------------ *)
(* kthread_cancel that calls sched_cancel before the self test *)
kthread_cancel_body_SchedFirst(kthr, retval) ==
  IF curthr = kthr
  THEN LET m0 == sched_cancel_tcb(tcb, kthr)
           m1 == [m0 EXCEPT ![kthr].kt_retval = retval]
           m2 == [m1 EXCEPT ![kthr].kt_state = "KT_EXITED"]
       IN /\ tcb' = m2
          /\ proc_thread_exited(m2, retval)
          /\ UNCHANGED <<alloc, pages, p_threads, queues, doublefree, panic>>
  ELSE LET m1 == [tcb EXCEPT ![kthr].kt_retval = retval]
       IN /\ tcb' = sched_cancel_tcb(m1, kthr)
          /\ queues' = sched_cancel_queues(m1, queues, kthr)
          /\ UNCHANGED <<alloc, pages, p_threads, curthr, curproc, exited,
                         doublefree, panic>>

(* kthread_cancel that does not store retval in the target *)
kthread_cancel_body_NoRetval(kthr, retval) ==
  IF curthr = kthr
  THEN kthread_exit_body(retval)
  ELSE /\ tcb' = sched_cancel_tcb(tcb, kthr)
       /\ queues' = sched_cancel_queues(tcb, queues, kthr)
       /\ UNCHANGED <<alloc, pages, p_threads, curthr, curproc, exited,
                      doublefree, panic>>

(* kthread_cancel that wakes every sleeping target, cancellable or not *)
kthread_cancel_body_WakeAll(kthr, retval) ==
  IF curthr = kthr
  THEN kthread_exit_body(retval)
  ELSE LET m1 == [tcb EXCEPT ![kthr].kt_retval = retval,
                             ![kthr].kt_cancelled = TRUE]
           asleep == m1[kthr].kt_state \in {"KT_SLEEP", "KT_SLEEP_CANCELLABLE"}
       IN /\ tcb' = IF asleep
                    THEN [m1 EXCEPT ![kthr].kt_wchan = NULL,
                                    ![kthr].kt_qlink = FALSE,
                                    ![kthr].kt_state = "KT_RUN"]
                    ELSE m1
          /\ queues' = IF asleep
                       THEN [c \in Chans |-> SeqRemove(queues[c], kthr)]
                       ELSE queues
          /\ UNCHANGED <<alloc, pages, p_threads, curthr, curproc, exited,
                         doublefree, panic>>

(* kthread_cancel that acts on sleeping targets only *)
kthread_cancel_body_SleepersOnly(kthr, retval) ==
  IF curthr = kthr
  THEN kthread_exit_body(retval)
  ELSE IF tcb[kthr].kt_state = "KT_RUN"
  THEN UNCHANGED <<tcb, queues, alloc, pages, p_threads, curthr, curproc,
                   exited, doublefree, panic>>
  ELSE LET m1 == [tcb EXCEPT ![kthr].kt_retval = retval]
       IN /\ tcb' = sched_cancel_tcb(m1, kthr)
          /\ queues' = sched_cancel_queues(m1, queues, kthr)
          /\ UNCHANGED <<alloc, pages, p_threads, curthr, curproc, exited,
                         doublefree, panic>>

(* kthread_cancel that marks its target runnable itself *)
kthread_cancel_body_MakeRunnable(kthr, retval) ==
  IF curthr = kthr
  THEN kthread_exit_body(retval)
  ELSE LET m1 == [tcb EXCEPT ![kthr].kt_retval = retval]
           m2 == sched_cancel_tcb(m1, kthr)
       IN /\ tcb' = [m2 EXCEPT ![kthr].kt_state = "KT_RUN"]
          /\ queues' = sched_cancel_queues(m1, queues, kthr)
          /\ UNCHANGED <<alloc, pages, p_threads, curthr, curproc, exited,
                         doublefree, panic>>

(* Body of kthread_cancel(kthr, retval) for a valid kthr: all but last *)
kthread_cancel_body(kthr, retval) ==
  IF curthr = kthr
  THEN kthread_exit_body(retval)
  ELSE LET m1 == [tcb EXCEPT ![kthr].kt_retval = retval]
       IN /\ tcb' = sched_cancel_tcb(m1, kthr)
          /\ queues' = sched_cancel_queues(m1, queues, kthr)
          /\ UNCHANGED <<alloc, pages, p_threads, curthr, curproc, exited,
                         doublefree, panic>>

(* kthr is a valid thread: KASSERT(NULL != kthr) holds for every caller *)
kthread_cancel(kthr, retval) ==
  /\ Running
  /\ kthr \in alloc
  /\ kthread_cancel_body(kthr, retval)
  /\ last' = Op(IF curthr = kthr THEN "cancel_self" ELSE "cancel",
                kthr, retval,
                IF curthr = kthr THEN ExitOut(retval) ELSE "return",
                NULL, tcb[kthr].kt_state)

(* -------------------------- kthread_clone ------------------------------ *)
(* kthread_clone without list_link_init(&newthr->kt_qlink) *)
CloneInit_NoLinkInit(thr, contextstack, kernelstack) ==
  [kt_kstack |-> kernelstack, c_kstack |-> contextstack,
   kt_retval |-> thr.kt_retval, kt_errno |-> thr.kt_errno,
   kt_proc |-> NULL, kt_cancelled |-> thr.kt_cancelled,
   kt_wchan |-> thr.kt_wchan, kt_state |-> "KT_RUN",
   kt_qlink |-> TRUE, kt_plink |-> FALSE]

(* kthread_clone that initialises kt_cancelled afresh instead of copying *)
CloneInit_FreshCancel(thr, contextstack, kernelstack) ==
  [kt_kstack |-> kernelstack, c_kstack |-> contextstack,
   kt_retval |-> thr.kt_retval, kt_errno |-> thr.kt_errno,
   kt_proc |-> NULL, kt_cancelled |-> FALSE,
   kt_wchan |-> thr.kt_wchan, kt_state |-> "KT_RUN",
   kt_qlink |-> FALSE, kt_plink |-> FALSE]

CloneInit(thr, contextstack, kernelstack) ==
  [kt_kstack |-> kernelstack, c_kstack |-> contextstack,
   kt_retval |-> thr.kt_retval, kt_errno |-> thr.kt_errno,
   kt_proc |-> NULL, kt_cancelled |-> thr.kt_cancelled,
   kt_wchan |-> thr.kt_wchan, kt_state |-> "KT_RUN",
   kt_qlink |-> FALSE, kt_plink |-> FALSE]

(* kthread_clone that tests the state of its source after allocating *)
kthread_clone_LateAssert(thr) ==
  /\ Running
  /\ thr \in alloc
  /\ \E contextstack \in alloc_stack_results(pages) :
     \E kernelstack \in alloc_stack_results(pages \cup {contextstack}) :
     LET newthr == slab_obj_alloc(alloc)
         Stop(why, a, pg) ==
           /\ Halt(why)
           /\ alloc' = a
           /\ pages' = pg
           /\ last' = Op("clone", thr, NULL, "assert", NULL, tcb[thr].kt_state)
           /\ UNCHANGED <<tcb, p_threads, queues, curthr, curproc, exited,
                          doublefree>>
     IN IF newthr = NULL
        THEN Stop("Ran out of memory in kthread clone", alloc, pages)
        ELSE IF contextstack = NULL
        THEN Stop("Ran out of memory in kthread clone context setup.",
                  alloc \cup {newthr}, pages)
        ELSE IF kernelstack = NULL
        THEN Stop("Ran out of memory in kthread clone stack setup.",
                  alloc \cup {newthr}, pages \cup {contextstack})
        ELSE IF tcb[thr].kt_state # "KT_RUN"
        THEN Stop("kthread_clone: KT_RUN == thr->kt_state",
                  alloc \cup {newthr}, pages \cup {contextstack, kernelstack})
        ELSE /\ alloc' = alloc \cup {newthr}
             /\ pages' = pages \cup {contextstack, kernelstack}
             /\ tcb' = [tcb EXCEPT ![newthr] =
                          CloneInit(tcb[thr], contextstack, kernelstack)]
             /\ exited' = [exited EXCEPT ![newthr] = <<>>]
             /\ last' = Op("clone", thr, NULL, "return", newthr,
                           tcb[thr].kt_state)
             /\ UNCHANGED <<p_threads, queues, curthr, curproc, doublefree,
                            panic>>

kthread_clone(thr) ==
  /\ Running
  /\ thr \in alloc
  /\ \E contextstack \in alloc_stack_results(pages) :
     \E kernelstack \in alloc_stack_results(pages \cup {contextstack}) :
     LET newthr == slab_obj_alloc(alloc)
         Stop(why, a, pg) ==
           /\ Halt(why)
           /\ alloc' = a
           /\ pages' = pg
           /\ last' = Op("clone", thr, NULL, "assert", NULL, tcb[thr].kt_state)
           /\ UNCHANGED <<tcb, p_threads, queues, curthr, curproc, exited,
                          doublefree>>
     IN IF tcb[thr].kt_state # "KT_RUN"
        THEN Stop("kthread_clone: KT_RUN == thr->kt_state", alloc, pages)
        ELSE IF newthr = NULL
        THEN Stop("Ran out of memory in kthread clone", alloc, pages)
        ELSE IF contextstack = NULL
        THEN Stop("Ran out of memory in kthread clone context setup.",
                  alloc \cup {newthr}, pages)
        ELSE IF kernelstack = NULL
        THEN Stop("Ran out of memory in kthread clone stack setup.",
                  alloc \cup {newthr}, pages \cup {contextstack})
        ELSE /\ alloc' = alloc \cup {newthr}
             /\ pages' = pages \cup {contextstack, kernelstack}
             /\ tcb' = [tcb EXCEPT ![newthr] =
                          CloneInit(tcb[thr], contextstack, kernelstack)]
             /\ exited' = [exited EXCEPT ![newthr] = <<>>]
             /\ last' = Op("clone", thr, NULL, "return", newthr,
                           tcb[thr].kt_state)
             /\ UNCHANGED <<p_threads, queues, curthr, curproc, doublefree,
                            panic>>

(* ------------------------- kthread_destroy ----------------------------- *)
(* Values a read of t->kt_kstack can yield: the field itself while the     *)
(* block is allocated; after slab_obj_free the block is freed memory and   *)
(* the read yields the stale field or whatever the allocator left there.   *)
ReadKstack(t) ==
  IF t \in alloc THEN {tcb[t].kt_kstack} ELSE {tcb[t].kt_kstack, NULL}

(* Freed memory of a block: kt_plink was unlinked by list_remove, kt_kstack *)
(* still holds the freed stack; no other field is read again before the    *)
(* slot is handed out and initialised anew.                                *)
Freed(kstack) == [ZeroTcb EXCEPT !.kt_kstack = kstack, !.kt_state = "freed"]

WasState(t) == tcb[t].kt_state

(* Effect of kthread_destroy(t) once KASSERT(t && t->kt_kstack) passed *)
DestroyEffect(t, kstack) ==
  /\ pages' = free_stack(pages, kstack)
  /\ p_threads' = IF tcb[t].kt_plink
                  THEN [p \in Procs |-> SeqRemove(p_threads[p], t)]
                  ELSE p_threads
  /\ tcb' = [tcb EXCEPT ![t] = Freed(kstack)]
  /\ alloc' = alloc \ {t}
  /\ exited' = [exited EXCEPT ![t] = <<>>]
  /\ doublefree' = (doublefree \/ kstack \notin pages \/ t \notin alloc)

(* Callers hold a handle to t (it was returned by create or clone), are    *)
(* not running on t, and t is not linked on a wait queue.                  *)
kthread_destroy(t) ==
  /\ Running
  /\ t # curthr
  /\ tcb[t].kt_kstack # NULL
  /\ ~(t \in alloc /\ tcb[t].kt_qlink)
  /\ \E kstack \in ReadKstack(t) :
       IF kstack = NULL
       THEN /\ Halt("kthread_destroy: t && t->kt_kstack")
            /\ last' = Op("destroy", t, NULL, "assert", NULL, WasState(t))
            /\ UNCHANGED <<tcb, alloc, pages, p_threads, queues, curthr,
                           curproc, exited, doublefree>>
       ELSE /\ DestroyEffect(t, kstack)
            /\ last' = Op("destroy", t, NULL, "return", NULL, WasState(t))
            /\ UNCHANGED <<queues, curthr, curproc, panic>>

(* ---------------- scheduler and fork path (collaborators) -------------- *)
(* Context switch: a runnable thread of some process becomes the running   *)
(* thread.                                                                 *)
sched_switch(t) ==
  /\ Running
  /\ t \in alloc
  /\ t # curthr
  /\ tcb[t].kt_state = "KT_RUN"
  /\ tcb[t].kt_proc # NULL
  /\ curthr' = t
  /\ curproc' = tcb[t].kt_proc
  /\ last' = SchedOp
  /\ UNCHANGED <<tcb, alloc, pages, p_threads, queues, exited, doublefree,
                 panic>>

(* The running thread blocks on wait channel c *)
sched_sleep_on(c, cancellable) ==
  /\ Running
  /\ curthr # NULL
  /\ tcb' = [tcb EXCEPT ![curthr].kt_state =
                          IF cancellable THEN "KT_SLEEP_CANCELLABLE"
                                         ELSE "KT_SLEEP",
                        ![curthr].kt_wchan = c,
                        ![curthr].kt_qlink = TRUE]
  /\ queues' = [queues EXCEPT ![c] = Append(@, curthr)]
  /\ curthr' = NULL
  /\ curproc' = NULL
  /\ last' = SchedOp
  /\ UNCHANGED <<alloc, pages, p_threads, exited, doublefree, panic>>

(* The ordinary wake condition of channel c fires for its first sleeper *)
sched_wakeup_on(c) ==
  /\ Running
  /\ queues[c] # <<>>
  /\ LET t == Head(queues[c])
     IN /\ tcb' = [tcb EXCEPT ![t].kt_state = "KT_RUN",
                              ![t].kt_wchan = NULL,
                              ![t].kt_qlink = FALSE]
        /\ last' = SchedOp
  /\ queues' = [queues EXCEPT ![c] = Tail(@)]
  /\ UNCHANGED <<alloc, pages, p_threads, curthr, curproc, exited,
                 doublefree, panic>>

(* The fork path finishes wiring a cloned block into process p *)
fork_wire(t, p) ==
  /\ Running
  /\ t \in alloc
  /\ tcb[t].kt_proc = NULL
  /\ tcb' = [tcb EXCEPT ![t].kt_proc = p, ![t].kt_plink = TRUE]
  /\ p_threads' = [p_threads EXCEPT ![p] = Append(@, t)]
  /\ last' = SchedOp
  /\ UNCHANGED <<alloc, pages, queues, curthr, curproc, exited, doublefree,
                 panic>>

Next ==
  \/ \E p \in Procs : kthread_create(p)
  \/ \E v \in Vals : kthread_exit(v)
  \/ \E k \in Slots, v \in Vals : kthread_cancel(k, v)
  \/ \E t \in Slots : kthread_clone(t)
  \/ \E t \in Slots : kthread_destroy(t)
  \/ \E t \in Slots : sched_switch(t)
  \/ \E c \in Chans, b \in BOOLEAN : sched_sleep_on(c, b)
  \/ \E c \in Chans : sched_wakeup_on(c)
  \/ \E t \in Slots, p \in Procs : fork_wire(t, p)


Spec == Init /\ [][Next]_vars
(* ======================= properties of the core ======================== *)
Sleeping(st) == st \in {"KT_SLEEP", "KT_SLEEP_CANCELLABLE"}
Queued(t) == \E c \in Chans : InSeq(queues[c], t)
Collections(t) == {p \in Procs : InSeq(p_threads[p], t)}
Occurrences(s, x) == Cardinality({i \in 1..Len(s) : s[i] = x})

(* C1: a thread T returned by create(p, ...) is RUNNABLE, not cancelled,   *)
(* has a null result and a null wait channel, is on no queue, belongs to   *)
(* p, and is in exactly one thread collection, p's, appended at its tail.  *)
C1_CreatePost ==
  [][(last'.op = "create" /\ last'.out = "return") =>
       LET T == last'.ret
           p == last'.thr
       IN /\ T \in alloc' /\ T \notin alloc
          /\ tcb'[T].kt_state = "KT_RUN"
          /\ tcb'[T].kt_cancelled = FALSE
          /\ tcb'[T].kt_retval = NULL
          /\ tcb'[T].kt_wchan = NULL
          /\ ~tcb'[T].kt_qlink
          /\ \A c \in Chans : ~InSeq(queues'[c], T)
          /\ tcb'[T].kt_proc = p
          /\ tcb'[T].kt_plink
          /\ p_threads' = [p_threads EXCEPT ![p] = Append(@, T)]
          /\ {q \in Procs : InSeq(p_threads'[q], T)} = {p}
          /\ Occurrences(p_threads'[p], T) = 1]_vars

C1_Witness ==
  /\ last.op = "create" /\ last.out = "return"
  /\ Len(p_threads[last.thr]) >= 2
  /\ tcb[last.ret].kt_state = "KT_RUN"

C3_SelfCancelIsExit ==
  [][last'.op = "cancel_self" =>
       LET T == last'.thr
           r == last'.arg
       IN /\ T = curthr
          /\ kthread_exit_body(r)
          /\ last'.out = "noreturn"
          /\ tcb'[T].kt_retval = r
          /\ tcb'[T].kt_state = "KT_EXITED"
          /\ tcb'[T].kt_cancelled = tcb[T].kt_cancelled
          /\ exited'[T] = <<[val |-> r, state |-> "KT_EXITED"]>>
          /\ curthr' = NULL]_vars

C3_Witness ==
  /\ last.op = "cancel_self" /\ last.out = "noreturn" /\ last.arg # NULL
  /\ tcb[last.thr].kt_state = "KT_EXITED"
  /\ ~tcb[last.thr].kt_cancelled

(* C4: cancel(T, r) by another thread on a T in a cancellable sleep leaves *)
(* T cancelled with result r, off its wait queue and RUNNABLE, and T does  *)
(* not become EXITED.                                                      *)
C4_CancelCancellableSleep ==
  (last.op = "cancel" /\ last.was = "KT_SLEEP_CANCELLABLE") =>
    LET T == last.thr
    IN /\ last.out = "return"
       /\ tcb[T].kt_cancelled
       /\ tcb[T].kt_retval = last.arg
       /\ ~Queued(T) /\ ~tcb[T].kt_qlink /\ tcb[T].kt_wchan = NULL
       /\ tcb[T].kt_state = "KT_RUN"
       /\ exited[T] = <<>>

C4_Witness ==
  /\ last.op = "cancel" /\ last.was = "KT_SLEEP_CANCELLABLE"
  /\ curthr # NULL /\ curthr # last.thr
  /\ last.arg = 2
  /\ tcb[last.thr].kt_state = "KT_RUN"

(* C5: cancel(T, r) by another thread on a T in a non-cancellable sleep    *)
(* sets the flag and the result and leaves T SLEEPING on the same channel  *)
(* at the same queue position; a thread in a non-cancellable sleep leaves  *)
(* SLEEPING only by the wake-up of its channel.                            *)
C5_CancelPlainSleep ==
  [][/\ (last'.op = "cancel" /\ last'.was = "KT_SLEEP") =>
          LET T == last'.thr
          IN /\ last'.out = "return"
             /\ tcb'[T].kt_cancelled
             /\ tcb'[T].kt_retval = last'.arg
             /\ tcb'[T].kt_state = "KT_SLEEP"
             /\ tcb'[T].kt_wchan = tcb[T].kt_wchan
             /\ tcb'[T].kt_qlink
             /\ queues' = queues
     /\ \A t \in alloc :
          (tcb[t].kt_state = "KT_SLEEP" /\ tcb'[t].kt_state # "KT_SLEEP") =>
             /\ last' = SchedOp
             /\ tcb'[t].kt_state = "KT_RUN"
             /\ Head(queues[tcb[t].kt_wchan]) = t
             /\ queues' = [queues EXCEPT ![tcb[t].kt_wchan] = Tail(@)]]_vars

C5_Witness ==
  /\ last.op = "cancel" /\ last.was = "KT_SLEEP" /\ last.arg # NULL
  /\ tcb[last.thr].kt_state = "KT_SLEEP"
  /\ tcb[last.thr].kt_cancelled
  /\ curthr # NULL

(* C6: clone(S) of a RUNNABLE S returns a RUNNABLE T with stacks of its    *)
(* own, the result, error, cancellation flag and wait channel of S, no     *)
(* process, no queue link and no collection membership; S is unchanged.    *)
C6_ClonePost ==
  [][(last'.op = "clone" /\ last'.out = "return") =>
       LET T == last'.ret
           S == last'.thr
       IN /\ tcb[S].kt_state = "KT_RUN"
          /\ T # S /\ T \notin alloc /\ T \in alloc'
          /\ tcb'[T].kt_state = "KT_RUN"
          /\ tcb'[T].kt_kstack # NULL
          /\ tcb'[T].kt_kstack \notin {tcb[S].kt_kstack, tcb[S].c_kstack}
          /\ tcb'[T].c_kstack \notin {NULL, tcb[S].kt_kstack, tcb[S].c_kstack}
          /\ tcb'[T].kt_kstack \notin pages /\ tcb'[T].kt_kstack \in pages'
          /\ tcb'[T].kt_retval = tcb[S].kt_retval
          /\ tcb'[T].kt_errno = tcb[S].kt_errno
          /\ tcb'[T].kt_cancelled = tcb[S].kt_cancelled
          /\ tcb'[T].kt_wchan = tcb[S].kt_wchan
          /\ tcb'[T].kt_proc = NULL
          /\ ~tcb'[T].kt_qlink /\ ~tcb'[T].kt_plink
          /\ \A c \in Chans : ~InSeq(queues'[c], T)
          /\ \A p \in Procs : ~InSeq(p_threads'[p], T)
          /\ tcb'[S] = tcb[S]]_vars

C6_Witness ==
  /\ last.op = "clone" /\ last.out = "return"
  /\ tcb[last.thr].kt_cancelled /\ tcb[last.thr].kt_retval # NULL
  /\ tcb[last.ret].kt_cancelled
  /\ tcb[last.ret].kt_retval = tcb[last.thr].kt_retval

(* C7: a second destroy of a control block that was already destroyed is   *)
(* rejected by the assertion and frees nothing a second time.              *)
C7_DoubleDestroyRejected ==
  (last.op = "destroy" /\ last.was = "freed") =>
    (last.out = "assert" /\ ~doublefree)

(* C8: destroy of a thread that is not EXITED is caught by an assertion    *)
(* and frees nothing.                                                      *)
C8_DestroyOnlyExited ==
  (last.op = "destroy" /\ (last.was = "KT_RUN" \/ Sleeping(last.was))) =>
    /\ last.out = "assert"
    /\ last.thr \in alloc
    /\ tcb[last.thr].kt_kstack \in pages

(* C9: exit(v) by a running thread D that is on no queue leaves D with     *)
(* result v and state EXITED, notifies the process with v after the state  *)
(* became EXITED, and does not return to D.                                *)
C9_ExitPost ==
  (last.op = "exit" /\ last.was = "KT_RUN") =>
    LET D == last.thr
    IN /\ tcb[D].kt_retval = last.arg
       /\ tcb[D].kt_state = "KT_EXITED"
       /\ exited[D] = <<[val |-> last.arg, state |-> "KT_EXITED"]>>
       /\ last.out = "noreturn"
       /\ curthr # D
       /\ panic = "none"

C9_Witness ==
  /\ last.op = "exit" /\ last.arg = 2
  /\ tcb[last.thr].kt_state = "KT_EXITED"
  /\ Len(exited[last.thr]) = 1

(* C10: cancel(A, r) by another thread on a RUNNABLE A that is on no queue *)
(* returns to the caller, and A is cancelled with result r, still RUNNABLE *)
(* and still on no queue.                                                  *)
C10_CancelRunnable ==
  [][(last'.op = "cancel" /\ last'.was = "KT_RUN") =>
       LET A == last'.thr
       IN /\ ~tcb[A].kt_qlink
          /\ last'.out = "return"
          /\ curthr' = curthr /\ curproc' = curproc /\ panic' = "none"
          /\ tcb'[A].kt_cancelled
          /\ tcb'[A].kt_retval = last'.arg
          /\ tcb'[A].kt_state = "KT_RUN"
          /\ ~tcb'[A].kt_qlink /\ tcb'[A].kt_wchan = NULL
          /\ \A c \in Chans : ~InSeq(queues'[c], A)
          /\ exited'[A] = <<>>]_vars

C10_Witness ==
  /\ last.op = "cancel" /\ last.was = "KT_RUN" /\ last.arg = 1
  /\ curthr # NULL /\ curthr # last.thr
  /\ tcb[last.thr].kt_state = "KT_RUN" /\ tcb[last.thr].kt_cancelled
  /\ tcb[last.thr].kt_retval = 1

(* C11: once a thread is EXITED its result slot is not written again, by   *)
(* any operation, a cancel by another thread included, until the block is  *)
(* destroyed.                                                              *)
C11_ResultFrozenAfterExit ==
  [][\A t \in alloc :
       (tcb[t].kt_state = "KT_EXITED" /\ t \in alloc') =>
          tcb'[t].kt_retval = tcb[t].kt_retval]_vars

C13_CancelledMonotonic ==
  [][\A t \in alloc :
       (tcb[t].kt_cancelled /\ t \in alloc') => tcb'[t].kt_cancelled]_vars

C13_Witness ==
  /\ last.op = "cancel_self" /\ last.out = "noreturn"
  /\ tcb[last.thr].kt_state = "KT_EXITED"
  /\ tcb[last.thr].kt_cancelled

(* C14: the thread-exited notification runs exactly once per thread        *)
(* lifetime: a live block has one notification if it is EXITED (by exit or *)
(* by a cancel of itself) and none otherwise, a thread that was only       *)
(* cancelled by another thread included.                                   *)
C14_NotifiedOnce ==
  \A t \in alloc :
    /\ Len(exited[t]) <= 1
    /\ tcb[t].kt_state = "KT_EXITED" <=> Len(exited[t]) = 1
    /\ (last.op \in {"exit", "cancel_self"} /\ last.thr = t
          /\ last.out = "noreturn") =>
         exited[t] = <<[val |-> last.arg, state |-> "KT_EXITED"]>>

C14_Witness ==
  \E t \in alloc, u \in alloc :
    /\ tcb[t].kt_state = "KT_EXITED" /\ Len(exited[t]) = 1
    /\ tcb[u].kt_state # "KT_EXITED" /\ tcb[u].kt_cancelled
    /\ exited[u] = <<>>

(* C15: clone takes exactly one control block and exactly one stack from   *)
(* the allocators, and the stack the new execution context is bound to is  *)
(* the kernel stack the new control block owns.                            *)
C15_CloneOneStack ==
  [][(last'.op = "clone" /\ last'.out = "return") =>
       LET T == last'.ret
       IN /\ alloc' = alloc \cup {T} /\ T \notin alloc
          /\ Cardinality(pages' \ pages) = 1
          /\ tcb'[T].c_kstack = tcb'[T].kt_kstack
          /\ pages' = pages \cup {tcb'[T].kt_kstack}]_vars

(* C16: stack allocations and frees balance: while the kernel runs, the    *)
(* allocated stacks are exactly the kernel stacks of the live control      *)
(* blocks, one each, and none is left when no control block is live.       *)
C16_StacksBalance ==
  Running =>
    /\ Cardinality(pages) = Cardinality(alloc)
    /\ \A s \in pages :
         Cardinality({t \in alloc : tcb[t].kt_kstack = s}) = 1
    /\ alloc = {} => pages = {}

(* C18: clone(S) of a source that is not RUNNABLE/RUNNING is stopped by    *)
(* the assertion before anything is allocated: no control block, no stack, *)
(* no new thread.                                                          *)
C18_CloneNeedsRunnable ==
  [][(last'.op = "clone" /\ last'.was # "KT_RUN") =>
       /\ last'.out = "assert"
       /\ last'.ret = NULL
       /\ panic' # "none"
       /\ alloc' = alloc
       /\ pages' = pages
       /\ tcb' = tcb
       /\ p_threads' = p_threads]_vars

C18_Witness ==
  /\ last.op = "clone" /\ last.out = "assert"
  /\ last.was = "KT_EXITED"
  /\ tcb[last.thr].kt_state = "KT_EXITED"
  /\ slab_obj_alloc(alloc) # NULL /\ Cardinality(Stacks \ pages) >= 2

(* C19: a create that finds the control-block pool or the page allocator   *)
(* exhausted halts by assertion: it returns no control block, initialises  *)
(* none, leaves every thread collection as it was, and the halted kernel   *)
(* takes no further step (no retry).                                       *)
C19_CreateExhaustionFatal ==
  [][/\ panic = "none"
     /\ (last'.op = "create" /\
           (slab_obj_alloc(alloc) = NULL \/ alloc_stack(pages) = NULL)) =>
          last'.out = "assert"
     /\ (last'.op = "create" /\ last'.out = "assert") =>
          /\ panic' # "none"
          /\ last'.ret = NULL
          /\ p_threads' = p_threads
          /\ tcb' = tcb
          /\ pages' = pages
          /\ queues' = queues]_vars

C19_Witness ==
  /\ last.op = "create" /\ last.out = "assert"
  /\ panic = "Ran out of memory in thread context setup."
  /\ Len(p_threads[last.thr]) = 1
  /\ Cardinality(alloc) = 2

(* C20: a thread's final result is the value of its own exit: when a       *)
(* thread that was cancelled by another thread calls exit(r2), its result  *)
(* becomes r2 and the process is notified with r2, whatever value the      *)
(* canceller had stored; before that, the result of a thread that has not  *)
(* exited changes only by a cancel of it or by its own exit.               *)
C20_ExitValueWins ==
  [][/\ (last'.op = "exit" /\ last'.out = "noreturn"
           /\ tcb[last'.thr].kt_cancelled) =>
          LET T == last'.thr
          IN /\ T = curthr
             /\ tcb'[T].kt_state = "KT_EXITED"
             /\ tcb'[T].kt_retval = last'.arg
             /\ exited'[T] = <<[val |-> last'.arg, state |-> "KT_EXITED"]>>
     /\ \A t \in alloc :
          (t \in alloc' /\ tcb[t].kt_state # "KT_EXITED"
             /\ tcb'[t].kt_retval # tcb[t].kt_retval) =>
            /\ last'.thr = t
            /\ last'.op \in {"cancel", "cancel_self", "exit"}
            /\ tcb'[t].kt_retval = last'.arg]_vars

C20_Witness ==
  /\ last.op = "exit" /\ last.out = "noreturn" /\ last.arg = 2
  /\ tcb[last.thr].kt_cancelled
  /\ tcb[last.thr].kt_retval = 2
  /\ exited[last.thr] = <<[val |-> 2, state |-> "KT_EXITED"]>>

(* ------------- kthread_exit called on an arbitrary caller -------------- *)
(* The calling thread's block is drawn from every combination of wait      *)
(* channel, queue link, owner and state, with any current process, so that *)
(* each KASSERT of kthread_exit is met both satisfied and violated.        *)
ExitInit ==
  \E wchan \in Chans \cup {NULL}, qlink \in BOOLEAN, p \in Procs,
     cp \in Procs, retval \in Vals, cancelled \in BOOLEAN,
     state \in {"KT_RUN", "KT_SLEEP", "KT_SLEEP_CANCELLABLE"} :
    /\ tcb = [t \in Slots |->
                IF t = 1
                THEN [kt_kstack |-> 1, c_kstack |-> 1, kt_retval |-> retval,
                      kt_errno |-> 0, kt_proc |-> p,
                      kt_cancelled |-> cancelled, kt_wchan |-> wchan,
                      kt_state |-> state, kt_qlink |-> qlink,
                      kt_plink |-> TRUE]
                ELSE ZeroTcb]
    /\ alloc = {1}
    /\ pages = {1}
    /\ p_threads = [q \in Procs |-> IF q = p THEN <<1>> ELSE <<>>]
    /\ queues = [c \in Chans |-> IF qlink /\ c = wchan THEN <<1>> ELSE <<>>]
    /\ curthr = 1
    /\ curproc = cp
    /\ exited = [t \in Slots |-> <<>>]
    /\ doublefree = FALSE
    /\ panic = "none"
    /\ last = SchedOp

ExitNext ==
  \/ \E v \in Vals : kthread_exit(v)
  \/ \E k \in Slots, v \in Vals : kthread_cancel(k, v)

ExitSpec == ExitInit /\ [][ExitNext]_vars

(* The caller violates a precondition of kthread_exit *)
ExitPreViolated ==
  /\ curthr # NULL
  /\ \/ tcb[curthr].kt_wchan # NULL
     \/ tcb[curthr].kt_qlink
     \/ tcb[curthr].kt_proc # curproc

(* C17 as stated: exit checks its precondition before it acts: when the    *)
(* caller is still queued, has a wait channel or is not of the current     *)
(* process, the assertion fires and exit has done nothing: no result       *)
(* stored, no EXITED state, no notification.                               *)
C17_ExitChecksFirst ==
  [][(last'.op = "exit" /\ ExitPreViolated) =>
       /\ last'.out = "assert"
       /\ panic' # "none"
       /\ tcb' = tcb
       /\ exited' = exited]_vars

(* C17 amended: exit stores the result first and then checks: when the     *)
(* caller is still queued, has a wait channel or is not of the current     *)
(* process, the assertion fires, the state does not become EXITED and the  *)
(* process is not notified; only the result slot has been written.         *)
C17_ExitChecksAfterStore ==
  [][(last'.op = "exit" /\ ExitPreViolated) =>
       LET T == curthr
       IN /\ last'.thr = T
          /\ last'.out = "assert"
          /\ panic' # "none"
          /\ tcb' = [tcb EXCEPT ![T].kt_retval = last'.arg]
          /\ tcb'[T].kt_state # "KT_EXITED"
          /\ exited' = exited
          /\ curthr' = T]_vars

C17_Witness ==
  /\ last.op = "exit" /\ last.out = "assert" /\ last.arg = 2
  /\ panic # "none"
  /\ tcb[last.thr].kt_wchan # NULL /\ tcb[last.thr].kt_qlink
  /\ tcb[last.thr].kt_state = "KT_SLEEP"
  /\ tcb[last.thr].kt_retval = 2
  /\ exited[last.thr] = <<>>
====
